---- MODULE Spec2Model ----
(***************************************************************************)
(* Model of two parts of the Ames Stereo Pipeline:                         *)
(*   - src/asp/Tools/sat_sim.cc: option validation (handle_arguments) and  *)
(*     the driver (main) of the synthetic camera / image pipeline;         *)
(*   - src/asp/Camera/CsmModel.h: the CsmModel wrapper around a            *)
(*     community sensor model, which holds the model through the           *)
(*     shared pointer m_gm_model.                                          *)
(* The two parts have a specification each: Spec (sat_sim) and SpecCsm.    *)
(***************************************************************************)
EXTENDS Integers, Sequences, FiniteSets

VARIABLES
  opt,                \* asp::SatSimOptions, as filled by check_command_line
  pc,                 \* position of main
  error,              \* the exception that ended the run, if any
  trace,              \* the pipeline steps executed so far, in order
  trajectory,         \* std::vector<vw::Vector3> trajectory
  cam2world,          \* std::vector<vw::Matrix3x3> cam2world
  cams,               \* std::vector<vw::camera::PinholeModel> cams
  external_cameras,   \* bool external_cameras
  images,             \* number of images written by genImages
  csm_live,           \* CsmModel instance -> constructed and not destroyed
  csm_gm_model,       \* CsmModel instance -> m_gm_model (0 is the null pointer)
  gm_state,           \* sensor-model handle -> state of the csm::RasterGM object
  csm_call,           \* the last CsmModel member function called
  csm_result          \* what that call returned or threw

satsim_vars == <<opt, pc, error, trace, trajectory, cam2world, cams,
                 external_cameras, images>>
csm_vars == <<csm_live, csm_gm_model, gm_state, csm_call, csm_result>>
vars == <<opt, pc, error, trace, trajectory, cam2world, cams,
          external_cameras, images,
          csm_live, csm_gm_model, gm_state, csm_call, csm_result>>

----------------------------------------------------------------------------
(* Bounds of the model. *)

\* num_cameras ranges over 0 .. MaxNum.
MaxNum == 3
\* DEM pixel columns of the sample camera positions range over 1 .. MaxCol.
MaxCol == 2
\* A camera list names 1 .. MaxListed cameras.
MaxListed == 2
\* The program holds at most MaxInst CsmModel objects.
MaxInst == 2
\* At most MaxPose transforms are composed into one sensor model.
MaxPose == 1

----------------------------------------------------------------------------
(* Doubles.  A double is an integer or NaN; every ordered comparison with  *)
(* NaN is false, as in IEEE 754.                                           *)

\* std::numeric_limits<double>::quiet_NaN()
NaN == -1000

isnan(x) == x = NaN

\* x <= 0 on doubles
LeqZero(x) == ~isnan(x) /\ x <= 0

\* x < 0 on doubles
LessZero(x) == ~isnan(x) /\ x < 0

\* std::isnan(norm_2(v)): the norm is NaN iff a component is
NormIsNan(v) == \E i \in DOMAIN v : isnan(v[i])

\* int(b)
BoolToInt(b) == IF b THEN 1 ELSE 0

\* vw::Vector3(): the zero vector
Zero3 == <<0, 0, 0>>

\* vw::Vector2(NaN, NaN)
NaN2 == <<NaN, NaN>>

\* vw::Vector3(NaN, NaN, NaN)
NaN3 == <<NaN, NaN, NaN>>

----------------------------------------------------------------------------
(* handle_arguments: the checks, in the order of the code.  Each operator  *)
(* is the condition of one throw.                                          *)

\* opt.dem_file == "" || opt.ortho_file == ""
MissingInputs(o) == o.dem_file = "" \/ o.ortho_file = ""

\* opt.out_prefix == ""
MissingOutPrefix(o) == o.out_prefix = ""

\* std::isnan(opt.image_size[0]) || std::isnan(opt.image_size[1])
MissingImageSize(o) == isnan(o.image_size[1]) \/ isnan(o.image_size[2])

\* opt.camera_list != "" && opt.no_images
CameraListWithNoImages(o) == o.camera_list # "" /\ o.no_images

\* opt.first == vw::Vector3() || opt.last == vw::Vector3()
MissingFirstLast(o) == o.first = Zero3 \/ o.last = Zero3

\* Mutant of NumCamerasInvalid: off by one.
NumCamerasInvalid_OffByOne(o) == o.num_cameras < 1

\* opt.num_cameras < 2
NumCamerasInvalid(o) == o.num_cameras < 2

\* std::isnan(opt.focal_length)
MissingFocalLength(o) == isnan(o.focal_length)

\* std::isnan(opt.optical_center[0]) || std::isnan(opt.optical_center[1])
MissingOpticalCenter(o) ==
  isnan(o.optical_center[1]) \/ isnan(o.optical_center[2])

\* std::isnan(norm_2(opt.first_ground_pos)) != std::isnan(norm_2(opt.last_ground_pos))
GroundPosInvalid(o) ==
  NormIsNan(o.first_ground_pos) # NormIsNan(o.last_ground_pos)

\* int ans = int(isnan(roll)) + int(isnan(pitch)) + int(isnan(yaw))
RollPitchYawNanCount(o) ==
  BoolToInt(isnan(o.roll)) + BoolToInt(isnan(o.pitch)) + BoolToInt(isnan(o.yaw))

\* Mutant of RollPitchYawInvalid: yaw is left out of the count.
RollPitchYawInvalid_NoYaw(o) == isnan(o.roll) # isnan(o.pitch)

\* ans != 0 && ans != 3
RollPitchYawInvalid(o) ==
  RollPitchYawNanCount(o) # 0 /\ RollPitchYawNanCount(o) # 3

\* The checks made only when no camera list is given, first failure first.
TrajectoryOptionsError(o) ==
  IF MissingFirstLast(o)
    THEN "The first and last camera positions must be specified."
  ELSE IF NumCamerasInvalid(o)
    THEN "The number of cameras must be at least 2."
  ELSE IF MissingFocalLength(o)
    THEN "The focal length must be positive."
  ELSE IF MissingOpticalCenter(o)
    THEN "The optical center must be specified."
  ELSE IF GroundPosInvalid(o)
    THEN "Either both first and last ground positions must be specified, or none."
  ELSE IF RollPitchYawInvalid(o)
    THEN "Either all of roll, pitch, and yaw must be specified, or none."
  ELSE ""

\* if (opt.camera_list == "") { ... }
CameraListBlockError(o) ==
  IF o.camera_list = "" THEN TrajectoryOptionsError(o) ELSE ""

\* int ans = int(!isnan(jitter_frequency)) + int(!isnan(velocity)) + ...
JitterCount(o) ==
  BoolToInt(~isnan(o.jitter_frequency)) + BoolToInt(~isnan(o.velocity))
  + BoolToInt(~isnan(o.horizontal_uncertainty[1]))
  + BoolToInt(~isnan(o.horizontal_uncertainty[2]))
  + BoolToInt(~isnan(o.horizontal_uncertainty[3]))

\* Mutant of JitterGroupInvalid: the count of the angles check, 3, in place
\* of 5.
JitterGroupInvalid_WrongCount(o) == JitterCount(o) # 0 /\ JitterCount(o) # 3

\* ans != 0 && ans != 5
JitterGroupInvalid(o) == JitterCount(o) # 0 /\ JitterCount(o) # 5

\* bool have_roll_pitch_yaw
have_roll_pitch_yaw(o) == ~isnan(o.roll) /\ ~isnan(o.pitch) /\ ~isnan(o.yaw)

\* ans != 0 && !have_roll_pitch_yaw
JitterWithoutAngles(o) == JitterCount(o) # 0 /\ ~have_roll_pitch_yaw(o)

\* Mutant of CameraListWithJitter: the check is missing.
CameraListWithJitter_Dropped(o) == FALSE

\* opt.camera_list != "" && ans != 0
CameraListWithJitter(o) == o.camera_list # "" /\ JitterCount(o) # 0

\* opt.velocity <= 0
VelocityInvalid(o) == LeqZero(o.velocity)

\* opt.horizontal_uncertainty[0] < 0 || ... [1] < 0 || ... [2] < 0
UncertaintyInvalid(o) ==
  \/ LessZero(o.horizontal_uncertainty[1])
  \/ LessZero(o.horizontal_uncertainty[2])
  \/ LessZero(o.horizontal_uncertainty[3])

\* opt.jitter_frequency <= 0
JitterFrequencyInvalid(o) == LeqZero(o.jitter_frequency)

\* The message of the vw::ArgumentErr that handle_arguments throws for the
\* parsed options o, or "" when it throws none.
ArgumentErrMessage(o) ==
  IF MissingInputs(o)
    THEN "Missing input DEM and/or ortho image."
  ELSE IF MissingOutPrefix(o)
    THEN "Missing output prefix."
  ELSE IF MissingImageSize(o)
    THEN "The image size must be specified."
  ELSE IF CameraListWithNoImages(o)
    THEN "The --camera-list and --no-images options cannot be used together."
  ELSE IF CameraListBlockError(o) # ""
    THEN CameraListBlockError(o)
  ELSE IF JitterGroupInvalid(o)
    THEN "Either all of jitter-frequency, velocity, and horizontal uncertainty must be specified, or none."
  ELSE IF JitterWithoutAngles(o)
    THEN "Modelling jitter requires specifying --roll, --pitch, and --yaw."
  ELSE IF CameraListWithJitter(o)
    THEN "The --camera-list, --jitter-frequency, --velocity, and --horizontal-uncertainty options cannot be used together."
  ELSE IF VelocityInvalid(o)
    THEN "The satellite velocity must be positive."
  ELSE IF UncertaintyInvalid(o)
    THEN "The horizontal uncertainty must be non-negative."
  ELSE IF JitterFrequencyInvalid(o)
    THEN "The jitter frequency must be positive."
  ELSE ""

\* No exception.
NoError == [type |-> "none", msg |-> ""]

\* vw::ArgumentErr() << msg
ArgumentErr(msg) == [type |-> "ArgumentErr", msg |-> msg]

----------------------------------------------------------------------------
(* The command lines explored.  check_command_line stores every option in  *)
(* opt; an option that is not given keeps its default_value.               *)

\* Values of --dem, --ortho, --output-prefix, --camera-list ("" is the default).
DemFiles == {"", "dem.tif"}
OrthoFiles == {"", "ortho.tif"}
OutPrefixes == {"", "run/out"}
CameraLists == {"", "cameras.txt"}

\* Values of --image-size and --optical-center.
ImageSizes == {NaN2, <<100, 100>>}
OpticalCenters == {NaN2, <<50, 50>>}

\* Values of --focal-length.
FocalLengths == {NaN, 1000}

\* Values of --first and --last: DEM column, row, height above the datum.
Positions == {Zero3} \cup {<<c, 1, 5>> : c \in 1..MaxCol}

\* Values of --first-ground-pos and --last-ground-pos.
GroundPositions == {NaN2, <<1, 2>>}

\* Values of --roll, --pitch, --yaw.
Angles == {NaN, 10}

\* Values of --velocity and --jitter-frequency.
Velocities == {NaN, 0, 8}
Frequencies == {NaN, 0, 4}

\* Values of --horizontal-uncertainty.
Uncertainties ==
  {<<a, b, c>> : a \in {NaN, 2}, b \in {NaN, 2}, c \in {NaN, 2}}
  \cup {<<-1, 2, 2>>}

\* Command lines that vary the required options, the camera source, the
\* trajectory, the intrinsics and the ground positions; the angles and the
\* jitter group are both absent or both complete.
PipelineConfigs ==
  {[dem_file |-> d, ortho_file |-> r, out_prefix |-> p, image_size |-> s,
    camera_list |-> cl, no_images |-> ni,
    first |-> f, last |-> l, num_cameras |-> n,
    focal_length |-> fl, optical_center |-> oc,
    first_ground_pos |-> fg, last_ground_pos |-> lg,
    roll |-> a, pitch |-> a, yaw |-> a,
    velocity |-> IF a = NaN THEN NaN ELSE 8,
    horizontal_uncertainty |-> IF a = NaN THEN NaN3 ELSE <<2, 2, 2>>,
    jitter_frequency |-> IF a = NaN THEN NaN ELSE 4] :
      d \in DemFiles, r \in OrthoFiles, p \in OutPrefixes, s \in ImageSizes,
      cl \in CameraLists, ni \in BOOLEAN,
      f \in Positions, l \in Positions, n \in 0..MaxNum,
      fl \in FocalLengths, oc \in OpticalCenters,
      fg \in GroundPositions, lg \in GroundPositions, a \in Angles}

\* Command lines that vary the DEM, the image size, the camera source, the
\* number of cameras, the three angles and the five jitter parameters; the
\* other required options, the trajectory end points and the intrinsics are
\* given.
OrientationConfigs ==
  {[dem_file |-> d, ortho_file |-> r, out_prefix |-> p, image_size |-> s,
    camera_list |-> cl, no_images |-> ni,
    first |-> <<1, 1, 5>>, last |-> <<MaxCol, 1, 5>>, num_cameras |-> n,
    focal_length |-> 1000, optical_center |-> <<50, 50>>,
    first_ground_pos |-> NaN2, last_ground_pos |-> NaN2,
    roll |-> ro, pitch |-> pi, yaw |-> ya,
    velocity |-> v, horizontal_uncertainty |-> hu, jitter_frequency |-> jf] :
      d \in DemFiles, r \in {"ortho.tif"}, p \in {"run/out"}, s \in ImageSizes,
      cl \in CameraLists, ni \in BOOLEAN, n \in 0..MaxNum,
      ro \in Angles, pi \in Angles, ya \in Angles,
      v \in Velocities, hu \in Uncertainties, jf \in Frequencies}

Configs == PipelineConfigs \cup OrientationConfigs

\* The default_value of every option: the command line with no option.
DefaultOptions ==
  [dem_file |-> "", ortho_file |-> "", out_prefix |-> "", image_size |-> NaN2,
   camera_list |-> "", no_images |-> FALSE,
   first |-> Zero3, last |-> Zero3, num_cameras |-> 0,
   focal_length |-> NaN, optical_center |-> NaN2,
   first_ground_pos |-> NaN2, last_ground_pos |-> NaN2,
   roll |-> NaN, pitch |-> NaN, yaw |-> NaN,
   velocity |-> NaN, horizontal_uncertainty |-> NaN3, jitter_frequency |-> NaN]

----------------------------------------------------------------------------
(* CsmModel: the objects and the sensor models they point to.              *)

\* CsmModel objects that the program may hold.
Instances == 1..MaxInst

\* Sensor-model handles, the csm::RasterGM objects that m_gm_model may point
\* to: one more than there are CsmModel objects, so that a new one can
\* always be allocated.  0 is the null pointer.
Handles == 1..(MaxInst + 1)

\* States of a sensor model: the number of transforms composed into it.
ModelStates == 0..MaxPose

\* Pixels at which the camera is queried.
Pixels == {<<0, 0>>, <<50, 50>>}

CsmInit ==
  /\ csm_live = [i \in Instances |-> FALSE]
  /\ csm_gm_model = [i \in Instances |-> 0]
  /\ gm_state = [h \in Handles |-> 0]
  /\ csm_call = [op |-> "none", inst |-> 0]
  /\ csm_result = "none"

----------------------------------------------------------------------------
(* main of sat_sim, one action per statement of the try block.             *)

\* main, at the call of handle_arguments, after check_command_line returned.
Init ==
  /\ opt \in Configs
  /\ pc = "validate"
  /\ error = NoError
  /\ trace = <<>>
  /\ trajectory = <<>>
  /\ cam2world = <<>>
  /\ cams = <<>>
  /\ external_cameras = FALSE
  /\ images = 0
  /\ CsmInit

\* Mutant of handle_arguments: the output directory is created before the
\* options are checked.
handle_arguments_DirFirst ==
  /\ pc = "validate"
  /\ trace' = Append(trace, "create_out_dir")
  /\ IF ArgumentErrMessage(opt) # ""
       THEN /\ error' = ArgumentErr(ArgumentErrMessage(opt))
            /\ pc' = "failed"
       ELSE /\ error' = error
            /\ pc' = "read_dem"
  /\ UNCHANGED <<opt, trajectory, cam2world, cams, external_cameras, images>>
  /\ UNCHANGED csm_vars

\* handle_arguments from its first check to its return: it throws
\* ArgumentErr, which ASP_STANDARD_CATCHES in main turns into the end of the
\* run, or it creates the output directory and returns.
handle_arguments ==
  /\ pc = "validate"
  /\ IF ArgumentErrMessage(opt) # ""
       THEN /\ error' = ArgumentErr(ArgumentErrMessage(opt))
            /\ pc' = "failed"
            /\ trace' = trace
       ELSE /\ error' = error
            /\ pc' = "read_dem"
            /\ trace' = Append(trace, "create_out_dir")
  /\ UNCHANGED <<opt, trajectory, cam2world, cams, external_cameras, images>>
  /\ UNCHANGED csm_vars

\* asp::readGeorefImage(opt.dem_file, ...)
ReadDem ==
  /\ pc = "read_dem"
  /\ trace' = Append(trace, "read_dem")
  /\ pc' = "read_ortho"
  /\ UNCHANGED <<opt, error, trajectory, cam2world, cams, external_cameras,
                 images>>
  /\ UNCHANGED csm_vars

\* asp::readGeorefImage(opt.ortho_file, ...)
ReadOrtho ==
  /\ pc = "read_ortho"
  /\ trace' = Append(trace, "read_ortho")
  /\ pc' = "cameras"
  /\ UNCHANGED <<opt, error, trajectory, cam2world, cams, external_cameras,
                 images>>
  /\ UNCHANGED csm_vars

\* Mutant of UseCameraList: the negation is missing.
UseCameraList_Negated(o) == o.camera_list = ""

\* !opt.camera_list.empty()
UseCameraList(o) == o.camera_list # ""

\* asp::readCameras: the cameras named in the list, in order.
ListedCameras(n) ==
  [i \in 1..n |-> [center |-> <<i, 1, 5>>, orientation |-> "file"]]

\* if (!opt.camera_list.empty()) { asp::readCameras(...); external_cameras = true; }
ReadCameras ==
  /\ pc = "cameras"
  /\ UseCameraList(opt)
  /\ \E n \in 1..MaxListed : cams' = ListedCameras(n)
  /\ external_cameras' = TRUE
  /\ trace' = Append(trace, "readCameras")
  /\ pc' = "images"
  /\ UNCHANGED <<opt, error, trajectory, cam2world, images>>
  /\ UNCHANGED csm_vars

\* std::vector<vw::Vector3> trajectory(opt.num_cameras)
AllocTrajectory(o) == [i \in 1..o.num_cameras |-> Zero3]

\* std::vector<vw::Matrix3x3> cam2world(opt.num_cameras)
AllocCam2World(o) == [i \in 1..o.num_cameras |-> "unset"]

\* asp::calcTrajectory fails when the path from first to last has no length.
DegenerateTrajectory(o) == o.first = o.last

\* asp::calcTrajectory, positions: entry i of t lies on the segment from first
\* to last at the fraction (i-1)/(N-1); stored multiplied by N-1.
TrajectoryPositions(o, t) ==
  [i \in 1..Len(t) |->
     [k \in 1..3 |-> o.first[k] * (Len(t) - i) + o.last[k] * (i - 1)]]

\* asp::calcTrajectory, orientations: fixed angles, else ground targets,
\* else nadir.
OrientationSpec(o) ==
  IF have_roll_pitch_yaw(o) THEN "FixedAngles"
  ELSE IF ~NormIsNan(o.first_ground_pos) /\ ~NormIsNan(o.last_ground_pos)
    THEN "GroundTargets"
  ELSE "Nadir"

\* asp::calcTrajectory, orientations of the cameras of c.
TrajectoryOrientations(o, c) == [i \in 1..Len(c) |-> OrientationSpec(o)]

\* vw::ArgumentErr thrown by calcTrajectory for a path of no length.
DegenerateTrajectoryError ==
  [type |-> "DegenerateTrajectoryError",
   msg |-> "The first and last camera positions are the same."]

\* Mutant of CalcTrajectory: the exception of calcTrajectory is caught on the
\* spot and main goes on to genCameras.
CalcTrajectory_ErrorSwallowed ==
  /\ pc = "cameras"
  /\ ~(opt.camera_list # "")
  /\ trace' = Append(trace, "calcTrajectory")
  /\ IF DegenerateTrajectory(opt)
       THEN /\ trajectory' = AllocTrajectory(opt)
            /\ cam2world' = AllocCam2World(opt)
            /\ error' = DegenerateTrajectoryError
       ELSE /\ trajectory' = TrajectoryPositions(opt, AllocTrajectory(opt))
            /\ cam2world' = TrajectoryOrientations(opt, AllocCam2World(opt))
            /\ error' = error
  /\ pc' = "gen_cameras"
  /\ UNCHANGED <<opt, cams, external_cameras, images>>
  /\ UNCHANGED csm_vars

\* else { trajectory(num_cameras); cam2world(num_cameras);
\*        asp::calcTrajectory(opt, dem_georef, dem, trajectory, cam2world); ...
\* An exception of calcTrajectory leaves the try block.
CalcTrajectory ==
  /\ pc = "cameras"
  /\ ~UseCameraList(opt)
  /\ trace' = Append(trace, "calcTrajectory")
  /\ IF DegenerateTrajectory(opt)
       THEN /\ trajectory' = AllocTrajectory(opt)
            /\ cam2world' = AllocCam2World(opt)
            /\ error' = DegenerateTrajectoryError
            /\ pc' = "failed"
       ELSE /\ trajectory' = TrajectoryPositions(opt, AllocTrajectory(opt))
            /\ cam2world' = TrajectoryOrientations(opt, AllocCam2World(opt))
            /\ error' = error
            /\ pc' = "gen_cameras"
  /\ UNCHANGED <<opt, cams, external_cameras, images>>
  /\ UNCHANGED csm_vars

\* asp::genCameras: one pinhole camera for each entry of the trajectory.
GeneratedCameras(t, c) ==
  [i \in 1..Len(t) |-> [center |-> t[i], orientation |-> c[i]]]

\* ... asp::genCameras(opt, trajectory, cam2world, cam_names, cams); }
GenCameras ==
  /\ pc = "gen_cameras"
  /\ cams' = GeneratedCameras(trajectory, cam2world)
  /\ trace' = Append(trace, "genCameras")
  /\ pc' = "images"
  /\ UNCHANGED <<opt, error, trajectory, cam2world, external_cameras, images>>
  /\ UNCHANGED csm_vars

\* Mutant of WantImages: the negation is missing.
WantImages_Negated(o) == o.no_images

\* !opt.no_images
WantImages(o) == ~o.no_images

\* if (!opt.no_images) asp::genImages(...): one image for each camera.
GenImages ==
  /\ pc = "images"
  /\ WantImages(opt)
  /\ images' = Len(cams)
  /\ trace' = Append(trace, "genImages")
  /\ pc' = "done"
  /\ UNCHANGED <<opt, error, trajectory, cam2world, cams, external_cameras>>
  /\ UNCHANGED csm_vars

\* opt.no_images: genImages is skipped and main returns.
SkipImages ==
  /\ pc = "images"
  /\ ~WantImages(opt)
  /\ pc' = "done"
  /\ UNCHANGED <<opt, error, trace, trajectory, cam2world, cams,
                 external_cameras, images>>
  /\ UNCHANGED csm_vars

Next ==
  \/ handle_arguments
  \/ ReadDem
  \/ ReadOrtho
  \/ ReadCameras
  \/ CalcTrajectory
  \/ GenCameras
  \/ GenImages
  \/ SkipImages

Spec == Init /\ [][Next]_vars

----------------------------------------------------------------------------
(* CsmModel.  The object i holds the sensor model in the shared pointer    *)
(* m_gm_model, csm_gm_model[i]; gm_state[h] is the state of the sensor     *)
(* model h, which every object pointing to h observes.                     *)

\* The state of sat_sim's variables while CsmModel objects are exercised.
SatSimIdle ==
  /\ opt = DefaultOptions
  /\ pc = "validate"
  /\ error = NoError
  /\ trace = <<>>
  /\ trajectory = <<>>
  /\ cam2world = <<>>
  /\ cams = <<>>
  /\ external_cameras = FALSE
  /\ images = 0

InitCsm == SatSimIdle /\ CsmInit

\* A handle that no live object points to: what new csm::RasterGM returns.
FreshHandle ==
  CHOOSE h \in Handles : \A i \in Instances : csm_gm_model[i] # h

\* CsmModel::CsmModel(): no sensor model yet.
CsmConstruct(i) ==
  /\ ~csm_live[i]
  /\ csm_live' = [csm_live EXCEPT ![i] = TRUE]
  /\ csm_gm_model' = [csm_gm_model EXCEPT ![i] = 0]
  /\ csm_call' = [op |-> "CsmModel", inst |-> i]
  /\ csm_result' = "ok"
  /\ UNCHANGED gm_state
  /\ UNCHANGED satsim_vars

\* CsmModel::load_model(isd_path): a new sensor model, read from the file.
CsmLoadModel(i) ==
  /\ csm_live[i]
  /\ csm_gm_model' = [csm_gm_model EXCEPT ![i] = FreshHandle]
  /\ gm_state' = [gm_state EXCEPT ![FreshHandle] = 0]
  /\ csm_call' = [op |-> "load_model", inst |-> i]
  /\ csm_result' = "ok"
  /\ UNCHANGED csm_live
  /\ UNCHANGED satsim_vars

\* CsmModel::CsmModel(isd_path): construction followed by load_model.
CsmConstructFromIsd(i) ==
  /\ ~csm_live[i]
  /\ csm_live' = [csm_live EXCEPT ![i] = TRUE]
  /\ csm_gm_model' = [csm_gm_model EXCEPT ![i] = FreshHandle]
  /\ gm_state' = [gm_state EXCEPT ![FreshHandle] = 0]
  /\ csm_call' = [op |-> "CsmModel(isd_path)", inst |-> i]
  /\ csm_result' = "ok"
  /\ UNCHANGED satsim_vars

\* What the copy of a CsmModel holds in m_gm_model: the class declares no
\* copy constructor and no copy assignment, so the implicit ones copy the
\* boost::shared_ptr member, and the copy points to the same sensor model.
CopiedHandle(src) == csm_gm_model[src]

\* CsmModel b(a): the implicit copy constructor.
CsmCopyConstruct(src, dst) ==
  /\ csm_live[src]
  /\ ~csm_live[dst]
  /\ csm_live' = [csm_live EXCEPT ![dst] = TRUE]
  /\ csm_gm_model' = [csm_gm_model EXCEPT ![dst] = CopiedHandle(src)]
  /\ csm_call' = [op |-> "CsmModel(CsmModel const&)", inst |-> dst]
  /\ csm_result' = "ok"
  /\ UNCHANGED gm_state
  /\ UNCHANGED satsim_vars

\* b = a: the implicit copy assignment.
CsmAssign(src, dst) ==
  /\ csm_live[src]
  /\ csm_live[dst]
  /\ src # dst
  /\ csm_gm_model' = [csm_gm_model EXCEPT ![dst] = CopiedHandle(src)]
  /\ csm_call' = [op |-> "operator=", inst |-> dst]
  /\ csm_result' = "ok"
  /\ UNCHANGED <<csm_live, gm_state>>
  /\ UNCHANGED satsim_vars

\* CsmModel::setModelFromStateString(model_state, recreate_model): with
\* recreate_model (or with no model yet) a new sensor model is created from
\* the state; without it the existing model is adjusted in place.
CsmSetModelFromStateString(i, st, recreate) ==
  /\ csm_live[i]
  /\ IF recreate \/ csm_gm_model[i] = 0
       THEN /\ csm_gm_model' = [csm_gm_model EXCEPT ![i] = FreshHandle]
            /\ gm_state' = [gm_state EXCEPT ![FreshHandle] = st]
       ELSE /\ csm_gm_model' = csm_gm_model
            /\ gm_state' = [gm_state EXCEPT ![csm_gm_model[i]] = st]
  /\ csm_call' = [op |-> "setModelFromStateString", inst |-> i]
  /\ csm_result' = "ok"
  /\ UNCHANGED csm_live
  /\ UNCHANGED satsim_vars

\* CsmModel::applyTransform(transform): the transform is composed into the
\* state of the sensor model; a model that is not loaded refuses.
CsmApplyTransform(i) ==
  /\ csm_live[i]
  /\ IF csm_gm_model[i] = 0
       THEN /\ gm_state' = gm_state
            /\ csm_result' = "ArgumentErr"
       ELSE /\ gm_state[csm_gm_model[i]] < MaxPose
            /\ gm_state' = [gm_state EXCEPT ![csm_gm_model[i]] = @ + 1]
            /\ csm_result' = "ok"
  /\ csm_call' = [op |-> "applyTransform", inst |-> i]
  /\ UNCHANGED <<csm_live, csm_gm_model>>
  /\ UNCHANGED satsim_vars

\* Mutant of camera_pose: the throw is missing for a loaded model, and the
\* default quaternion is returned.
camera_pose_Returns(h, pix) == IF h = 0 THEN "NoImplErr" ELSE "Quaternion"

\* What camera_pose(pix) gives for a CsmModel whose m_gm_model is h:
\* vw_throw(vw::NoImplErr() << "CsmModel: Cannot retrieve camera_pose!").
camera_pose(h, pix) == "NoImplErr"

\* CsmModel::camera_pose(pix) const
CsmCameraPose(i, pix) ==
  /\ csm_live[i]
  /\ csm_call' = [op |-> "camera_pose", inst |-> i]
  /\ csm_result' = camera_pose(csm_gm_model[i], pix)
  /\ UNCHANGED <<csm_live, csm_gm_model, gm_state>>
  /\ UNCHANGED satsim_vars

\* CsmModel::createFrameModel(cols, rows, cx, cy, focal_length, ...): a new
\* frame sensor model is created from the arguments and held in m_gm_model.
CsmCreateFrameModel(i) ==
  /\ csm_live[i]
  /\ csm_gm_model' = [csm_gm_model EXCEPT ![i] = FreshHandle]
  /\ gm_state' = [gm_state EXCEPT ![FreshHandle] = 0]
  /\ csm_call' = [op |-> "createFrameModel", inst |-> i]
  /\ csm_result' = "ok"
  /\ UNCHANGED csm_live
  /\ UNCHANGED satsim_vars

\* dst.m_gm_model = src.m_gm_model: m_gm_model is a public data member, and
\* a caller may assign the shared pointer of one object to another.
CsmShareGmModel(src, dst) ==
  /\ csm_live[src]
  /\ csm_live[dst]
  /\ src # dst
  /\ csm_gm_model' = [csm_gm_model EXCEPT ![dst] = csm_gm_model[src]]
  /\ csm_call' = [op |-> "m_gm_model =", inst |-> dst]
  /\ csm_result' = "ok"
  /\ UNCHANGED <<csm_live, gm_state>>
  /\ UNCHANGED satsim_vars

\* i.m_gm_model.reset(): a caller may release the public shared pointer; the
\* object stays alive, without a sensor model.
CsmResetGmModel(i) ==
  /\ csm_live[i]
  /\ csm_gm_model' = [csm_gm_model EXCEPT ![i] = 0]
  /\ csm_call' = [op |-> "m_gm_model.reset", inst |-> i]
  /\ csm_result' = "ok"
  /\ UNCHANGED <<csm_live, gm_state>>
  /\ UNCHANGED satsim_vars

\* CsmModel::~CsmModel(): the shared pointer is released.
CsmDestroy(i) ==
  /\ csm_live[i]
  /\ csm_live' = [csm_live EXCEPT ![i] = FALSE]
  /\ csm_gm_model' = [csm_gm_model EXCEPT ![i] = 0]
  /\ csm_call' = [op |-> "~CsmModel", inst |-> i]
  /\ csm_result' = "ok"
  /\ UNCHANGED gm_state
  /\ UNCHANGED satsim_vars

NextCsm ==
  \/ \E i \in Instances : CsmConstruct(i)
  \/ \E i \in Instances : CsmConstructFromIsd(i)
  \/ \E i \in Instances : CsmLoadModel(i)
  \/ \E i, j \in Instances : CsmCopyConstruct(i, j)
  \/ \E i, j \in Instances : CsmAssign(i, j)
  \/ \E i \in Instances, st \in ModelStates, r \in BOOLEAN :
       CsmSetModelFromStateString(i, st, r)
  \/ \E i \in Instances : CsmApplyTransform(i)
  \/ \E i \in Instances : CsmCreateFrameModel(i)
  \/ \E i, j \in Instances : CsmShareGmModel(i, j)
  \/ \E i \in Instances : CsmResetGmModel(i)
  \/ \E i \in Instances, pix \in Pixels : CsmCameraPose(i, pix)
  \/ \E i \in Instances : CsmDestroy(i)

SpecCsm == InitCsm /\ [][NextCsm]_vars

----------------------------------------------------------------------------
(* Vocabulary of the properties, read off the state.                       *)

\* handle_arguments has returned normally.
Returned == pc # "validate" /\ error.type # "ArgumentErr"

\* handle_arguments has thrown vw::ArgumentErr.
Rejected == pc = "failed" /\ error.type = "ArgumentErr"

\* How many of the five jitter parameters the command line sets.
NumJitterSet ==
  Cardinality({k \in 1..5 :
     <<opt.jitter_frequency, opt.velocity, opt.horizontal_uncertainty[1],
       opt.horizontal_uncertainty[2], opt.horizontal_uncertainty[3]>>[k] # NaN})

\* How many of roll, pitch, yaw the command line sets.
NumAnglesSet ==
  Cardinality({k \in 1..3 : <<opt.roll, opt.pitch, opt.yaw>>[k] # NaN})

\* dem, ortho, output-prefix and image-size are all given.
RequiredPresent ==
  /\ opt.dem_file # ""
  /\ opt.ortho_file # ""
  /\ opt.out_prefix # ""
  /\ opt.image_size # NaN2

\* The pipeline step x has been executed.
InTrace(x) == \E k \in 1..Len(trace) : trace[k] = x

\* The sequence s starts the sequence t.
IsPrefix(s, t) == Len(s) <= Len(t) /\ \A k \in 1..Len(s) : s[k] = t[k]

\* The steps of a run that nothing interrupts, for the options o.
FullRun(o) ==
  <<"create_out_dir", "read_dem", "read_ortho">>
  \o (IF o.camera_list # "" THEN <<"readCameras">>
                            ELSE <<"calcTrajectory", "genCameras">>)
  \o (IF o.no_images THEN <<>> ELSE <<"genImages">>)

\* The options o with --first, --last, --num, --focal-length and
\* --optical-center left out.
WithoutTrajectoryOptions(o) ==
  [o EXCEPT !.first = Zero3, !.last = Zero3, !.num_cameras = 0,
            !.focal_length = NaN, !.optical_center = NaN2]

----------------------------------------------------------------------------
(* The properties.                                                         *)

\* C1: when at least one of the five jitter parameters is set,
\* handle_arguments returns normally only if all five and all of roll,
\* pitch, yaw are set; with one to four of them set, or with one of roll,
\* pitch, yaw unset, it throws ArgumentErr, with or without camera-list.
C1_JitterAllOrNone ==
  (pc # "validate" /\ NumJitterSet > 0) =>
     /\ Returned => (NumJitterSet = 5 /\ NumAnglesSet = 3)
     /\ (NumJitterSet < 5 \/ NumAnglesSet < 3) => Rejected

\* C1 witness: a camera list with some, not all, jitter parameters, all else
\* in order, is rejected by the jitter group check.
C1_Witness ==
  /\ Rejected
  /\ NumJitterSet \in 1..4
  /\ NumAnglesSet = 3
  /\ opt.camera_list # ""
  /\ error.msg = "Either all of jitter-frequency, velocity, and horizontal uncertainty must be specified, or none."

\* C2 as stated: camera-list together with roll, pitch and yaw (no jitter
\* parameter, required options present) is rejected with ArgumentErr.
C2_Original ==
  (pc # "validate" /\ opt.camera_list # "" /\ NumAnglesSet = 3
     /\ NumJitterSet = 0 /\ RequiredPresent) => Rejected

\* C2 amended: camera-list together with roll, pitch and yaw (required
\* options present) is rejected with ArgumentErr exactly when a jitter
\* parameter or no-images is given too; otherwise handle_arguments returns
\* normally.
C2_CameraListWithAngles ==
  (pc # "validate" /\ opt.camera_list # "" /\ NumAnglesSet = 3
     /\ RequiredPresent) =>
       /\ Rejected <=> (NumJitterSet > 0 \/ opt.no_images)
       /\ Returned <=> ~(NumJitterSet > 0 \/ opt.no_images)

\* C2 witness: camera-list with roll, pitch, yaw and a complete jitter group
\* is rejected for the jitter group.
C2_Witness ==
  /\ Rejected
  /\ opt.camera_list # ""
  /\ NumAnglesSet = 3
  /\ NumJitterSet = 5
  /\ RequiredPresent
  /\ ~opt.no_images

\* C3 as stated: one or two of roll, pitch, yaw set is rejected with
\* ArgumentErr whatever the other options, camera-list included.
C3_Original ==
  (pc # "validate" /\ NumAnglesSet \in {1, 2}) => Rejected

\* C3 amended: without camera-list, one or two of roll, pitch, yaw set is
\* rejected with ArgumentErr whatever the other options; with camera-list
\* the angles are not checked, and such a command line is rejected exactly
\* when a required option is missing, or no-images or a jitter parameter is
\* given.
C3_AnglesAllOrNone ==
  (pc # "validate" /\ NumAnglesSet \in {1, 2}) =>
     /\ opt.camera_list = "" => Rejected
     /\ opt.camera_list # "" =>
          (Rejected <=> (~RequiredPresent \/ opt.no_images \/ NumJitterSet > 0))
     /\ Rejected \/ Returned

\* C3 witness: no camera list, all else in order, two of the three angles:
\* rejected by the check of the angles.
C3_Witness ==
  /\ Rejected
  /\ opt.camera_list = ""
  /\ NumAnglesSet = 2
  /\ error.msg = "Either all of roll, pitch, and yaw must be specified, or none."

\* C4: when handle_arguments throws ArgumentErr, the output directory is not
\* created, neither the DEM nor the orthoimage is read, no camera is read or
\* generated and no image is synthesized, then or later: the run is over.
C4_FailFast ==
  error.type = "ArgumentErr" =>
     /\ pc = "failed"
     /\ trace = <<>>
     /\ trajectory = <<>> /\ cam2world = <<>> /\ cams = <<>>
     /\ ~external_cameras
     /\ images = 0
     /\ ~ENABLED Next

\* C4 witness: a run rejected by handle_arguments.
C4_Witness == Rejected /\ opt.camera_list = "" /\ RequiredPresent

\* C5: a run that passed validation takes exactly one of the two camera
\* paths: readCameras iff camera-list is given, calcTrajectory (and
\* genCameras only after it) iff not; never both, and never neither once the
\* camera step is past.  With camera-list, the outcome of validation is the
\* one of the same command line without first, last, num, focal-length and
\* optical-center.
C5_ExclusivePaths ==
  /\ ~(InTrace("readCameras")
        /\ (InTrace("calcTrajectory") \/ InTrace("genCameras")))
  /\ (Returned /\ pc \in {"gen_cameras", "images", "done", "failed"}) =>
        /\ InTrace("readCameras") <=> opt.camera_list # ""
        /\ InTrace("calcTrajectory") <=> opt.camera_list = ""
  /\ InTrace("genCameras") => InTrace("calcTrajectory")
  /\ (pc \in {"images", "done"} /\ opt.camera_list = "") => InTrace("genCameras")
  /\ (pc # "validate" /\ opt.camera_list # "") =>
        /\ error.msg = ArgumentErrMessage(WithoutTrajectoryOptions(opt))
        /\ Rejected \/ Returned

\* C5 witness: a finished run on the camera-list path whose first, last and
\* num would not pass without the list.
C5_Witness ==
  /\ pc = "done"
  /\ opt.camera_list # ""
  /\ InTrace("readCameras")
  /\ opt.first = opt.last
  /\ opt.num_cameras < 2
  /\ opt.focal_length = NaN

\* C6: when calcTrajectory is called, num >= 2 and the vectors of positions
\* and of orientations handed to it, and then to genCameras, have num
\* entries each; without camera-list, num < 2 is rejected with ArgumentErr
\* before any step.
C6_TrajectorySize ==
  /\ InTrace("calcTrajectory") =>
        /\ opt.num_cameras >= 2
        /\ Len(trajectory) = opt.num_cameras
        /\ Len(cam2world) = opt.num_cameras
  /\ InTrace("genCameras") => Len(cams) = opt.num_cameras
  /\ (pc # "validate" /\ opt.camera_list = "" /\ opt.num_cameras < 2) =>
        (Rejected /\ trace = <<>>)

\* C6 witness: cameras generated from a trajectory of more than two entries.
C6_Witness ==
  /\ InTrace("genCameras")
  /\ opt.num_cameras > 2
  /\ Len(trajectory) = opt.num_cameras

\* C7: without camera-list and with first equal to last, the run never
\* generates a camera nor synthesizes an image, can only go on until it
\* fails, and fails with an error.
C7_ZeroLengthPathFatal ==
  (opt.camera_list = "" /\ opt.first = opt.last) =>
     /\ pc \notin {"gen_cameras", "images", "done"}
     /\ cams = <<>>
     /\ images = 0
     /\ ~InTrace("genCameras") /\ ~InTrace("genImages")
     /\ pc = "failed" => error.type \in {"ArgumentErr", "DegenerateTrajectoryError"}
     /\ pc # "failed" => ENABLED Next

\* C7 witness: a valid command line with first equal to last, stopped by
\* calcTrajectory.
C7_Witness ==
  /\ pc = "failed"
  /\ error.type = "DegenerateTrajectoryError"
  /\ opt.first = opt.last
  /\ InTrace("calcTrajectory")

\* C8: camera_pose of a CsmModel signals NoImplErr for every pixel, whether
\* or not a sensor model is loaded or transformed, and changes nothing of
\* the model.
C8_CameraPoseNotImplemented ==
  [][csm_call'.op = "camera_pose" =>
        /\ csm_result' = "NoImplErr"
        /\ UNCHANGED <<csm_live, csm_gm_model, gm_state>>]_vars

\* C8 witness: camera_pose was called on a CsmModel whose sensor model is
\* loaded and transformed.
C8_Witness ==
  /\ csm_call.op = "camera_pose"
  /\ csm_result = "NoImplErr"
  /\ csm_gm_model[csm_call.inst] # 0
  /\ gm_state[csm_gm_model[csm_call.inst]] > 0

\* C9 as stated: no two live CsmModel objects point to the same sensor
\* model.
C9_NoSharedHandle ==
  \A i, j \in Instances :
     (i # j /\ csm_live[i] /\ csm_live[j] /\ csm_gm_model[i] # 0)
        => csm_gm_model[i] # csm_gm_model[j]

\* C10 as stated: in every run that passed validation the steps follow the
\* fixed order, once each, and the finished run has read the DEM and the
\* orthoimage, obtained the cameras, and synthesized the images unless
\* no-images is set.
C10_Original ==
  Returned =>
     /\ IsPrefix(trace, FullRun(opt))
     /\ pc \in {"done", "failed"} => trace = FullRun(opt)

\* C10 amended: in every run that passed validation the steps follow the
\* fixed order, at most once each; a run that no step interrupts goes on to
\* the end and has then executed each step of the order exactly once
\* (genImages never when no-images is set, the cameras are generated all
\* the same); the one interrupted run is the one stopped by calcTrajectory,
\* after the DEM, the orthoimage and calcTrajectory, once each.
C10_PipelineOrder ==
  Returned =>
     /\ IsPrefix(trace, FullRun(opt))
     /\ pc = "done" => trace = FullRun(opt)
     /\ pc = "failed" =>
          /\ error.type = "DegenerateTrajectoryError"
          /\ trace = <<"create_out_dir", "read_dem", "read_ortho", "calcTrajectory">>
     /\ pc \notin {"done", "failed"} => ENABLED Next

\* C10 witness: a finished run with no-images: cameras generated, no image.
C10_Witness ==
  /\ pc = "done"
  /\ opt.no_images
  /\ trace = <<"create_out_dir", "read_dem", "read_ortho", "calcTrajectory", "genCameras">>
  /\ Len(cams) = opt.num_cameras
  /\ images = 0

====
